---- MODULE Spec2Model ----
(***************************************************************************)
(* Model of main.py of chatgpt-api-cost-calculator: the tokenizer adapter  *)
(* (count_tokens), the usage extractor (extract_token_usage), the month    *)
(* range generator (get_all_months), the cost calculator (calculate_cost)  *)
(* and the reporter / chart renderer (print_token_usage, plot_token_usage) *)
(* driven by main().                                                       *)
(*                                                                         *)
(* Conventions.                                                            *)
(*  - A datetime is a record [y, m, d, s]: year, month, day and the second *)
(*    of the day; datetimes compare lexicographically, as Python's do.     *)
(*  - A Python str holding a month key is the sequence of its characters.  *)
(*  - A JSON value is a tagged record: [tag |-> "absent"] for a key that   *)
(*    is not in its dict, [tag |-> "null"] for None, [tag |-> "obj", ...]  *)
(*    for a dict, "list", "str", "num" likewise.                           *)
(*  - A call that can raise yields a record with an exc field: "" when it  *)
(*    returned, the exception's class name when it raised.                 *)
(*  - Money is counted in millionths of a dollar, so that                  *)
(*    calculate_cost's division by 1_000_000 is exact.                     *)
(***************************************************************************)
EXTENDS Integers, Sequences, FiniteSets, TLC

VARIABLES
    mode,        \* which entry point this behaviour drives: "main", "months", "count", "cost"
    pc,          \* position of the driven call
    data,        \* main: the loaded export, its nodes in iteration order
    tz,          \* main: the local zone's offset from UTC, seconds
    idx,         \* main: number of nodes extract_token_usage has visited
    monthly_input_tokens,   \* main: defaultdict(int) of extract_token_usage
    monthly_output_tokens,  \* main: defaultdict(int) of extract_token_usage
    tokenized,   \* main: number of count_tokens calls that returned
    logged,      \* main: number of "Error tokenizing text" lines printed
    error,       \* the exception that ended the call, "" when none
    now,         \* main: the last value datetime.today() gave
    table,       \* main: what print_token_usage computed and printed
    chart,       \* main: what plot_token_usage computed and drew
    arg,         \* months/count/cost: the arguments of the call
    ret          \* months/count/cost: what the call returned

vars == <<mode, pc, data, tz, idx, monthly_input_tokens, monthly_output_tokens,
          tokenized, logged, error, now, table, chart, arg, ret>>

(***************************************************************************)
(* Bounds of the model.                                                    *)
(***************************************************************************)
MaxNodes == 2        \* nodes in an export
MaxCostTokens == 12  \* token counts handed to calculate_cost alone

(***************************************************************************)
(* Program constants, main.py lines 10-14.                                 *)
(***************************************************************************)
COST_INPUT_TOKEN == 5
COST_OUTPUT_TOKEN == 15
COST_BASE_IMAGE == 85
COST_IMAGE_TILE == 170
MODEL == "gpt-4o"

(***************************************************************************)
(* datetime: calendar arithmetic, comparison, formatting and parsing.      *)
(***************************************************************************)
IsLeap(y) == (y % 4 = 0 /\ y % 100 # 0) \/ y % 400 = 0

DaysInMonth(y, m) ==
    IF m = 2 THEN (IF IsLeap(y) THEN 29 ELSE 28)
    ELSE IF m \in {4, 6, 9, 11} THEN 30 ELSE 31

DateTime(y, m, d, s) == [y |-> y, m |-> m, d |-> d, s |-> s]

\* a <= b on datetimes
DtLeq(a, b) ==
    \/ a.y < b.y
    \/ a.y = b.y /\ a.m < b.m
    \/ a.y = b.y /\ a.m = b.m /\ a.d < b.d
    \/ a.y = b.y /\ a.m = b.m /\ a.d = b.d /\ a.s <= b.s

DtMax(a, b) == IF DtLeq(a, b) THEN b ELSE a

\* min(...) and max(...) over a non-empty set of datetimes
DtMinOf(S) == CHOOSE a \in S : \A b \in S : DtLeq(a, b)
DtMaxOf(S) == CHOOSE a \in S : \A b \in S : DtLeq(b, a)

\* dt + relativedelta(months=1): the next month, the day clipped to its length
AddMonth(dt) ==
    LET y2 == IF dt.m = 12 THEN dt.y + 1 ELSE dt.y
        m2 == IF dt.m = 12 THEN 1 ELSE dt.m + 1
        last == DaysInMonth(y2, m2)
    IN  DateTime(y2, m2, IF dt.d > last THEN last ELSE dt.d, dt.s)

Digit(n) ==
    CASE n = 0 -> "0" [] n = 1 -> "1" [] n = 2 -> "2" [] n = 3 -> "3"
      [] n = 4 -> "4" [] n = 5 -> "5" [] n = 6 -> "6" [] n = 7 -> "7"
      [] n = 8 -> "8" [] n = 9 -> "9"

DigitValue(c) == CHOOSE n \in 0..9 : Digit(n) = c

\* dt.strftime('%Y-%m')
StrfYm(dt) ==
    << Digit(dt.y \div 1000), Digit((dt.y \div 100) % 10),
       Digit((dt.y \div 10) % 10), Digit(dt.y % 10), "-",
       Digit(dt.m \div 10), Digit(dt.m % 10) >>

\* datetime.strptime(key, '%Y-%m'): the first day of the month, at midnight
StrpYm(key) ==
    DateTime(1000 * DigitValue(key[1]) + 100 * DigitValue(key[2])
               + 10 * DigitValue(key[3]) + DigitValue(key[4]),
             10 * DigitValue(key[6]) + DigitValue(key[7]), 1, 0)

\* datetime.fromtimestamp(ts) in a zone offset seconds east of UTC
FromTimestamp(ts, offset) ==
    LET loc  == ts + offset
        z    == (loc \div 86400) + 719468
        era  == z \div 146097
        doe  == z - era * 146097
        yoe  == (doe - doe \div 1460 + doe \div 36524 - doe \div 146096) \div 365
        doy  == doe - (365 * yoe + yoe \div 4 - yoe \div 100)
        mp   == (5 * doy + 2) \div 153
        d    == doy - (153 * mp + 2) \div 5 + 1
        m    == IF mp < 10 THEN mp + 3 ELSE mp - 9
        y    == yoe + era * 400 + (IF m <= 2 THEN 1 ELSE 0)
    IN  DateTime(y, m, d, loc % 86400)

(***************************************************************************)
(* get_all_months, lines 70-77.                                            *)
(***************************************************************************)
RECURSIVE MonthsLoop(_, _, _)
MonthsLoop(current_date, end_date, months) ==
    IF DtLeq(current_date, end_date)
    THEN MonthsLoop(AddMonth(current_date), end_date,
                    Append(months, StrfYm(current_date)))
    ELSE months

get_all_months(start_date, end_date) == MonthsLoop(start_date, end_date, <<>>)

(***************************************************************************)
(* calculate_cost, lines 80-82, in millionths of a dollar.                 *)
(***************************************************************************)
calculate_cost_flat(input_tokens, output_tokens) ==
    input_tokens * COST_INPUT_TOKEN + output_tokens * COST_INPUT_TOKEN

calculate_cost(input_tokens, output_tokens) ==
    input_tokens * COST_INPUT_TOKEN + output_tokens * COST_OUTPUT_TOKEN

(***************************************************************************)
(* Content units: the elements of content.parts.                           *)
(*   "str"  : a string, given as the sequence of tokens tiktoken splits it *)
(*            into; "<|endoftext|>" stands for special-token text, which   *)
(*            encode() refuses; the empty string has no tokens.            *)
(*   "dict" : a mapping, given by its key set and its width and height.    *)
(*   "none" : None.    "int" : a number.                                   *)
(***************************************************************************)
Unit(kind, toks, keys, width, height, num) ==
    [kind |-> kind, toks |-> toks, keys |-> keys,
     width |-> width, height |-> height, num |-> num]

StrUnit(toks) == Unit("str", toks, {}, 0, 0, 0)
ImageUnit(w, h) == Unit("dict", <<>>, {"asset_pointer", "width", "height"}, w, h, 0)
DictUnit(keys) == Unit("dict", <<>>, keys, 0, 0, 0)
NoneUnit == Unit("none", <<>>, {}, 0, 0, 0)
IntUnit(n) == Unit("int", <<>>, {}, 0, 0, n)

TruthyAlways(u) == TRUE

\* bool(unit)
Truthy(u) ==
    CASE u.kind = "str"  -> u.toks # <<>>
      [] u.kind = "dict" -> u.keys # {}
      [] u.kind = "int"  -> u.num # 0
      [] OTHER           -> FALSE

Returned(v) == [exc |-> "", val |-> v, printed |-> 0]
Raised(e) == [exc |-> e, val |-> 0, printed |-> 0]

(***************************************************************************)
(* tiktoken, as count_tokens uses it on line 29 and line 30.               *)
(***************************************************************************)
RegisteredModels == {"gpt-4o", "gpt-3.5-turbo-0613"}

\* tiktoken.encoding_for_model(model)
encoding_for_model(model) ==
    IF model \in RegisteredModels THEN Returned(0) ELSE Raised("KeyError")

\* len(encoding.encode(text))
encode_len(text) ==
    IF text.kind # "str" THEN Raised("TypeError")
    ELSE IF \E i \in 1..Len(text.toks) : text.toks[i] = "<|endoftext|>"
         THEN Raised("ValueError")
         ELSE Returned(Len(text.toks))

(***************************************************************************)
(* count_tokens, lines 17-36.                                              *)
(***************************************************************************)
image_tokens_per_side(text) ==
    COST_BASE_IMAGE
      + COST_IMAGE_TILE * ((text.width \div 512) * (text.height \div 512))

\* line 33
image_tokens(text) ==
    COST_BASE_IMAGE + COST_IMAGE_TILE * ((text.width * text.height) \div (512 * 512))

\* lines 31-36: the handler of "except Exception"
count_tokens_except(text) ==
    IF text.kind # "dict" THEN Raised("AttributeError")   \* text.keys()
    ELSE IF "width" \in text.keys /\ "height" \in text.keys
         THEN Returned(image_tokens(text))
         ELSE [exc |-> "", val |-> 0, printed |-> 1]

count_tokens(text, model) ==
    LET enc == encoding_for_model(model)
        n   == encode_len(text)
    IN  IF enc.exc = "" /\ n.exc = "" THEN n ELSE count_tokens_except(text)

(***************************************************************************)
(* JSON values of the export.                                              *)
(***************************************************************************)
Absent == [tag |-> "absent"]
Null == [tag |-> "null"]
JStr(s) == [tag |-> "str", s |-> s]
JNum(n) == [tag |-> "num", n |-> n]
JList(items) == [tag |-> "list", items |-> items]
JMessage(content, author, create_time) ==
    [tag |-> "obj", content |-> content, author |-> author, create_time |-> create_time]
JContent(parts) == [tag |-> "obj", parts |-> parts]
JAuthor(role) == [tag |-> "obj", role |-> role]
JNode(message) == [message |-> message]

\* d.get(key, default), for the value v the dict d holds at key
Get(v, default) == IF v.tag = "absent" THEN default ELSE v

\* bool(create_time)
TruthyTime(v) == v.tag = "num" /\ v.n # 0

\* defaultdict(int): d[k] += v
DictAdd(d, k, v) ==
    IF k \in DOMAIN d THEN [d EXCEPT ![k] = @ + v] ELSE d @@ (k :> v)

\* d.get(k, 0)
DictGet0(d, k) == IF k \in DOMAIN d THEN d[k] ELSE 0

EmptyDict == [k \in {} |-> 0]

(***************************************************************************)
(* extract_token_usage, lines 46-67: the body of the loop for one node.    *)
(* A loop state st is [inp, out, exc, tokenized, logged].                  *)
(***************************************************************************)
RECURSIVE PartsLoop(_, _, _, _, _)
\* lines 59-64, from part i on
PartsLoop(parts, i, author_role, month_key, st) ==
    IF i > Len(parts) THEN st
    ELSE LET r == count_tokens(parts[i], MODEL)
         IN  IF r.exc # "" THEN [st EXCEPT !.exc = r.exc]
             ELSE PartsLoop(parts, i + 1, author_role, month_key,
                    [st EXCEPT
                       !.inp = IF author_role = "user"
                               THEN DictAdd(@, month_key, r.val) ELSE @,
                       !.out = IF author_role = "assistant"
                               THEN DictAdd(@, month_key, r.val) ELSE @,
                       !.tokenized = @ + 1,
                       !.logged = @ + r.printed])

\* lines 54-64, before the except clause
NodeBody(message_data, offset, st) ==
    LET message == Get(message_data.message, JMessage(Absent, Absent, Absent))
    IN  IF message.tag # "obj" THEN [st EXCEPT !.exc = "AttributeError"]
        ELSE
        LET content == Get(message.content, JContent(Absent))
        IN  IF content.tag # "obj" THEN [st EXCEPT !.exc = "AttributeError"]
            ELSE
            LET message_content == Get(content.parts, JList(<<StrUnit(<<>>)>>))
                author == Get(message.author, JAuthor(Absent))
            IN  IF author.tag # "obj" THEN [st EXCEPT !.exc = "AttributeError"]
                ELSE
                LET author_role == Get(author.role, JStr("")).s
                    create_time == message.create_time
                IN  IF ~TruthyTime(create_time) THEN st
                    ELSE IF message_content.tag # "list"
                         THEN [st EXCEPT !.exc = "TypeError"]
                    ELSE IF message_content.items = <<>>
                         THEN [st EXCEPT !.exc = "IndexError"]
                    ELSE IF ~Truthy(message_content.items[1]) THEN st
                    ELSE PartsLoop(message_content.items, 1, author_role,
                                   StrfYm(FromTimestamp(create_time.n, offset)), st)

\* lines 53-66: "except AttributeError: pass" swallows that one class only
NodeStep(message_data, offset, st) ==
    LET r == NodeBody(message_data, offset, st)
    IN  IF r.exc = "AttributeError" THEN [r EXCEPT !.exc = ""] ELSE r

(***************************************************************************)
(* print_token_usage, lines 151-180, and plot_token_usage, lines 85-148:   *)
(* the series both compute from the two mappings and datetime.today().     *)
(***************************************************************************)
RECURSIVE SumTo(_, _)
\* sum(xs[:k])
SumTo(xs, k) == IF k = 0 THEN 0 ELSE SumTo(xs, k - 1) + xs[k]

\* [sum(xs[:i+1]) for i in range(len(xs))]
Cumulative(xs) == [k \in 1..Len(xs) |-> SumTo(xs, k)]

\* lines 154 and 88
AllDates(inp, out) == DOMAIN inp \cup DOMAIN out

\* lines 155 and 89
StartDate(all_dates) == DtMinOf({StrpYm(k) : k \in all_dates})

EndDateDataOnly(all_dates, today) == DtMaxOf({StrpYm(k) : k \in all_dates})

\* lines 156 and 90
EndDate(all_dates, today) == DtMax(today, DtMaxOf({StrpYm(k) : k \in all_dates}))

MonthlyDataShifted(d, all_months) ==
    [i \in 1..Len(all_months) |->
        IF i = 1 THEN 0 ELSE DictGet0(d, all_months[i - 1])]

\* lines 162-163 and 96-97
MonthlyData(d, all_months) ==
    [i \in 1..Len(all_months) |-> DictGet0(d, all_months[i])]

\* lines 153-171 and 87-105
Series(inp, out, today) ==
    LET all_dates   == AllDates(inp, out)
        all_months  == get_all_months(StartDate(all_dates), EndDate(all_dates, today))
        input_data  == MonthlyData(inp, all_months)
        output_data == MonthlyData(out, all_months)
        monthly_costs == [i \in 1..Len(all_months) |->
                             calculate_cost(input_data[i], output_data[i])]
    IN  [all_months        |-> all_months,
         input_data        |-> input_data,
         output_data       |-> output_data,
         cumulative_input  |-> Cumulative(input_data),
         cumulative_output |-> Cumulative(output_data),
         monthly_costs     |-> monthly_costs,
         cumulative_costs  |-> Cumulative(monthly_costs)]

NoSeries ==
    [all_months |-> <<>>, input_data |-> <<>>, output_data |-> <<>>,
     cumulative_input |-> <<>>, cumulative_output |-> <<>>,
     monthly_costs |-> <<>>, cumulative_costs |-> <<>>]

(***************************************************************************)
(* The exports, zones and clock readings the model runs main() on.         *)
(***************************************************************************)
T_Nov23  == 19681 * 86400 + 43200  \* 2023-11-20 12:00:00 UTC
T_Jan15  == 19737 * 86400 + 43200  \* 2024-01-15 12:00:00 UTC
T_JanEnd == 19753 * 86400 + 84600  \* 2024-01-31 23:30:00 UTC
T_Mar10  == 19792 * 86400 + 28800  \* 2024-03-10 08:00:00 UTC

S1 == StrUnit(<<"t">>)
S2 == StrUnit(<<"t", "t">>)
S3 == StrUnit(<<"t", "t", "t">>)
SEmpty == StrUnit(<<>>)
SSpecial == StrUnit(<<"t", "<|endoftext|>">>)

Msg(role, ts, items) ==
    JNode(JMessage(JContent(JList(items)), JAuthor(JStr(role)), JNum(ts)))

MalformedNodes ==
    { JNode(Absent),
      JNode(Null),
      JNode(JMessage(Absent, JAuthor(JStr("user")), JNum(T_Jan15))),
      JNode(JMessage(Null, JAuthor(JStr("user")), JNum(T_Jan15))),
      JNode(JMessage(JContent(Null), JAuthor(JStr("user")), JNum(T_Jan15))),
      JNode(JMessage(JContent(JList(<<>>)), JAuthor(JStr("user")), JNum(T_Jan15))),
      JNode(JMessage(JContent(JList(<<>>)), JAuthor(JStr("user")), Absent)),
      JNode(JMessage(JContent(JList(<<S2>>)), Null, JNum(T_Jan15))),
      JNode(JMessage(JContent(JList(<<S2>>)), Absent, JNum(T_Jan15))),
      JNode(JMessage(JContent(JList(<<S2>>)), JAuthor(JStr("user")), Absent)),
      JNode(JMessage(JContent(JList(<<S2>>)), JAuthor(JStr("user")), JNum(0))) }

MessageNodes ==
    { Msg("user", T_Jan15, <<S2>>),
      Msg("assistant", T_Mar10, <<S3>>),
      Msg("assistant", T_JanEnd, <<S1, SSpecial, S1>>),
      Msg("user", T_Mar10, <<ImageUnit(512, 512), S1>>),
      Msg("assistant", T_Nov23, <<DictUnit({"asset_pointer"})>>),
      Msg("user", T_JanEnd, <<DictUnit({"asset_pointer"}), S2>>),
      Msg("system", T_Mar10, <<S2>>),
      Msg("user", T_Nov23, <<SEmpty, S2>>) }

NodePool == MalformedNodes \cup MessageNodes

Exports == UNION { [1..n -> NodePool] : n \in 0..MaxNodes }

TzOffsets == {0, 3600}

Clock == { DateTime(2023, 12, 20, 36000),
           DateTime(2024, 3, 31, 86399),
           DateTime(2025, 2, 1, 0) }

NoDate == DateTime(0, 0, 0, 0)
NoArg == [none |-> TRUE]

(***************************************************************************)
(* main(), lines 183-197, on a loaded export.                              *)
(***************************************************************************)
Init ==
    /\ mode = "main"
    /\ pc = "extract"
    /\ data \in Exports
    /\ tz \in TzOffsets
    /\ idx = 0
    /\ monthly_input_tokens = EmptyDict
    /\ monthly_output_tokens = EmptyDict
    /\ tokenized = 0
    /\ logged = 0
    /\ error = ""
    /\ now = NoDate
    /\ table = NoSeries
    /\ chart = NoSeries
    /\ arg = NoArg
    /\ ret = NoArg

\* one iteration of the loops of lines 51-66
ExtractNode ==
    /\ mode = "main" /\ pc = "extract" /\ idx < Len(data)
    /\ LET st == [inp |-> monthly_input_tokens, out |-> monthly_output_tokens,
                  exc |-> "", tokenized |-> tokenized, logged |-> logged]
           r  == NodeStep(data[idx + 1], tz, st)
       IN  /\ monthly_input_tokens' = r.inp
           /\ monthly_output_tokens' = r.out
           /\ tokenized' = r.tokenized
           /\ logged' = r.logged
           /\ error' = r.exc
           /\ pc' = IF r.exc = "" THEN "extract" ELSE "extract_raised"
           /\ idx' = idx + 1
    /\ UNCHANGED <<mode, data, tz, now, table, chart, arg, ret>>

\* line 67
ExtractReturn ==
    /\ mode = "main" /\ pc = "extract" /\ idx = Len(data)
    /\ pc' = "print"
    /\ UNCHANGED <<mode, data, tz, idx, monthly_input_tokens, monthly_output_tokens,
                   tokenized, logged, error, now, table, chart, arg, ret>>

\* line 194
PrintTokenUsage ==
    /\ mode = "main" /\ pc = "print"
    /\ \E today \in Clock :
         /\ now' = today
         /\ IF AllDates(monthly_input_tokens, monthly_output_tokens) = {}
            THEN /\ error' = "ValueError"      \* min() of an empty sequence
                 /\ pc' = "print_raised"
                 /\ table' = table
            ELSE /\ error' = error
                 /\ pc' = "plot"
                 /\ table' = Series(monthly_input_tokens, monthly_output_tokens, today)
    /\ UNCHANGED <<mode, data, tz, idx, monthly_input_tokens, monthly_output_tokens,
                   tokenized, logged, chart, arg, ret>>

\* line 197
PlotTokenUsage ==
    /\ mode = "main" /\ pc = "plot"
    /\ \E today \in Clock :
         /\ DtLeq(now, today)
         /\ now' = today
         /\ IF AllDates(monthly_input_tokens, monthly_output_tokens) = {}
            THEN /\ error' = "ValueError"
                 /\ pc' = "plot_raised"
                 /\ chart' = chart
            ELSE /\ error' = error
                 /\ pc' = "done"
                 /\ chart' = Series(monthly_input_tokens, monthly_output_tokens, today)
    /\ UNCHANGED <<mode, data, tz, idx, monthly_input_tokens, monthly_output_tokens,
                   tokenized, logged, table, arg, ret>>

Next == ExtractNode \/ ExtractReturn \/ PrintTokenUsage \/ PlotTokenUsage

Spec == Init /\ [][Next]_vars

(***************************************************************************)
(* The functions called on their own: get_all_months, count_tokens and     *)
(* calculate_cost, each on arguments drawn from a bounded set.             *)
(***************************************************************************)
MainIdle ==
    /\ data = <<>>
    /\ tz = 0
    /\ idx = 0
    /\ monthly_input_tokens = EmptyDict
    /\ monthly_output_tokens = EmptyDict
    /\ tokenized = 0
    /\ logged = 0
    /\ now = NoDate
    /\ table = NoSeries
    /\ chart = NoSeries

MainVars == <<data, tz, idx, monthly_input_tokens, monthly_output_tokens,
              tokenized, logged, now, table, chart>>

Years == {2023, 2024}
Days == {1, 15, 28, 29, 30, 31}

Dates ==
    { dt \in [y : Years, m : 1..12, d : Days, s : {0}] :
        dt.d <= DaysInMonth(dt.y, dt.m) }

InitMonths ==
    /\ mode = "months" /\ pc = "call" /\ error = "" /\ ret = NoArg
    /\ arg \in [start_date : Dates, end_date : Dates]
    /\ MainIdle

CallGetAllMonths ==
    /\ mode = "months" /\ pc = "call"
    /\ ret' = get_all_months(arg.start_date, arg.end_date)
    /\ pc' = "returned"
    /\ UNCHANGED <<mode, error, arg>>
    /\ UNCHANGED MainVars

SpecMonths == InitMonths /\ [][CallGetAllMonths]_vars

Sides == {0, 100, 256, 511, 512, 513, 1024}

CountUnits ==
    { ImageUnit(w, h) : w \in Sides, h \in Sides } \cup
    { DictUnit({}), DictUnit({"asset_pointer"}), DictUnit({"width"}),
      DictUnit({"height", "asset_pointer"}),
      S1, S2, S3, SEmpty, SSpecial, NoneUnit, IntUnit(0), IntUnit(7) }

ModelIds == {MODEL, "gpt-3.5-turbo-0613", "no-such-model"}

InitCount ==
    /\ mode = "count" /\ pc = "call" /\ error = "" /\ ret = NoArg
    /\ arg \in [text : CountUnits, model : ModelIds]
    /\ MainIdle

\* count_tokens returns
CallCountTokensReturn ==
    /\ mode = "count" /\ pc = "call"
    /\ count_tokens(arg.text, arg.model).exc = ""
    /\ ret' = count_tokens(arg.text, arg.model)
    /\ pc' = "returned"
    /\ UNCHANGED <<mode, error, arg>>
    /\ UNCHANGED MainVars

\* count_tokens raises
CallCountTokensRaise ==
    /\ mode = "count" /\ pc = "call"
    /\ count_tokens(arg.text, arg.model).exc # ""
    /\ error' = count_tokens(arg.text, arg.model).exc
    /\ pc' = "raised"
    /\ UNCHANGED <<mode, ret, arg>>
    /\ UNCHANGED MainVars

NextCount == CallCountTokensReturn \/ CallCountTokensRaise

SpecCount == InitCount /\ [][NextCount]_vars

InitCost ==
    /\ mode = "cost" /\ pc = "call" /\ error = "" /\ ret = NoArg
    /\ arg \in [input_tokens : 0..MaxCostTokens, output_tokens : 0..MaxCostTokens]
    /\ MainIdle

CallCalculateCost ==
    /\ mode = "cost" /\ pc = "call"
    /\ ret' = calculate_cost(arg.input_tokens, arg.output_tokens)
    /\ pc' = "returned"
    /\ UNCHANGED <<mode, error, arg>>
    /\ UNCHANGED MainVars

SpecCost == InitCost /\ [][CallCalculateCost]_vars

(***************************************************************************)
(* Vocabulary of the properties, written without the operators above so    *)
(* that a property says what the code should compute, not what it does.    *)
(***************************************************************************)
\* months are numbered year * 12 + (month - 1)
Ordinal(y, m) == y * 12 + (m - 1)
Ordinals == {Ordinal(1970, 1)} \cup (Ordinal(2023, 1) .. Ordinal(2025, 12))

\* the key 'YYYY-MM' of month number n
KeyOfOrdinal(n) ==
    LET y == n \div 12
        m == (n % 12) + 1
    IN  << Digit(y \div 1000), Digit((y \div 100) % 10), Digit((y \div 10) % 10),
           Digit(y % 10), "-", Digit(m \div 10), Digit(m % 10) >>

MonthKey(y, m) == KeyOfOrdinal(Ordinal(y, m))

\* the keys of the months number lo to number hi, in order
KeyRange(lo, hi) == [i \in 1..(hi - lo + 1) |-> KeyOfOrdinal(lo + i - 1)]

OrdinalsOf(keys) == { n \in Ordinals : KeyOfOrdinal(n) \in keys }
MinOrd(S) == CHOOSE n \in S : \A k \in S : n <= k
MaxOrd(S) == CHOOSE n \in S : \A k \in S : k <= n

ExtractionReturned == mode = "main" /\ pc \in {"print", "print_raised", "plot", "plot_raised", "done"}

(***************************************************************************)
(* C7. calculate_cost(i, o), in millionths of a dollar, is exactly         *)
(* 5*i + 15*o for all non-negative integers i and o; it is non-negative,   *)
(* it is 0 only when i = o = 0, it raises nothing and it leaves the rest   *)
(* of the state as it was.                                                 *)
(***************************************************************************)
C7_CostFormula ==
    (mode = "cost" /\ pc = "returned") =>
        /\ ret = 5 * arg.input_tokens + 15 * arg.output_tokens
        /\ ret >= 0
        /\ (ret = 0 <=> (arg.input_tokens = 0 /\ arg.output_tokens = 0))
        /\ error = ""
        /\ MainIdle

C7_Witness ==
    /\ mode = "cost" /\ pc = "returned"
    /\ arg.input_tokens = 2 /\ arg.output_tokens = 3 /\ ret = 55

(***************************************************************************)
(* C8. For an image descriptor with non-negative integer width and height  *)
(* count_tokens returns 85 + 170 * floor(width*height / (512*512)), for    *)
(* every model identifier: 512x512 gives 255, 1024x1024 gives 765,         *)
(* 100x100 gives 85, and an image narrower than 512 on one side is counted *)
(* by its area alone (256x1024 gives 255).                                 *)
(***************************************************************************)
IsImage(u) == u.kind = "dict" /\ {"width", "height"} \subseteq u.keys

C8_ImageFormula ==
    (mode = "count" /\ pc # "call" /\ IsImage(arg.text)) =>
        /\ pc = "returned"
        /\ ret.val = 85 + 170 * ((arg.text.width * arg.text.height) \div 262144)
        /\ (arg.text.width = 512 /\ arg.text.height = 512) => ret.val = 255
        /\ (arg.text.width = 1024 /\ arg.text.height = 1024) => ret.val = 765
        /\ (arg.text.width = 100 /\ arg.text.height = 100) => ret.val = 85
        /\ (arg.text.width = 256 /\ arg.text.height = 1024) => ret.val = 255

C8_Witness ==
    /\ mode = "count" /\ pc = "returned" /\ IsImage(arg.text)
    /\ arg.text.width = 256 /\ arg.text.height = 1024 /\ ret.val = 255

(***************************************************************************)
(* C3. count_tokens never raises: for every content unit and every model   *)
(* identifier it returns a non-negative integer; when tokenization fails   *)
(* it returns the image formula's value if the unit carries width and      *)
(* height, and otherwise it reports the failure and returns 0.             *)
(***************************************************************************)
TokenizationFails(u, model) ==
    \/ model \notin RegisteredModels
    \/ u.kind # "str"
    \/ \E i \in 1..Len(u.toks) : u.toks[i] = "<|endoftext|>"

C3_CountTokensNeverRaises ==
    (mode = "count" /\ pc # "call") =>
        /\ pc = "returned"
        /\ ret.val >= 0
        /\ (TokenizationFails(arg.text, arg.model) /\ ~IsImage(arg.text)) =>
               (ret.val = 0 /\ ret.printed = 1)

(***************************************************************************)
(* C2. get_all_months(start, end), for dates with any day of the month     *)
(* whose month of start is not after the month of end, returns the keys of *)
(* every calendar month from start's to end's, in order, one per month,    *)
(* across the year's end: start and end in the same month M give [M], and  *)
(* 2023-11 to 2024-02 gives 2023-11, 2023-12, 2024-01, 2024-02.            *)
(* Stated here for start <= end only: a start that is later in the same   *)
(* month than the end, which the claim covers too, is left out, so that    *)
(* what refutes the formula is a range of two dates in order.              *)
(***************************************************************************)
C2_AllMonthsAnyDay ==
    (/\ mode = "months" /\ pc = "returned"
     /\ DtLeq(arg.start_date, arg.end_date)) =>
        /\ ret = KeyRange(Ordinal(arg.start_date.y, arg.start_date.m),
                          Ordinal(arg.end_date.y, arg.end_date.m))
        /\ (arg.start_date.y = 2023 /\ arg.start_date.m = 11
              /\ arg.end_date.y = 2024 /\ arg.end_date.m = 2) =>
               ret = << MonthKey(2023, 11), MonthKey(2023, 12),
                        MonthKey(2024, 1), MonthKey(2024, 2) >>

(***************************************************************************)
(* What the export says, read off the nodes directly.                      *)
(***************************************************************************)
\* the node carries a message object with an author role, a creation time
\* other than 0 and a non-empty parts list whose first part is truthy
WellFormed(node) ==
    /\ node.message.tag = "obj"
    /\ node.message.content.tag = "obj"
    /\ node.message.content.parts.tag = "list"
    /\ Len(node.message.content.parts.items) > 0
    /\ LET first == node.message.content.parts.items[1]
       IN  \/ first.kind = "str" /\ Len(first.toks) > 0
           \/ first.kind = "dict" /\ Cardinality(first.keys) > 0
           \/ first.kind = "int" /\ first.num # 0
    /\ node.message.author.tag = "obj"
    /\ node.message.author.role.tag = "str"
    /\ node.message.create_time.tag = "num"
    /\ node.message.create_time.n # 0

RoleOf(node) == node.message.author.role.s
PartsOf(node) == node.message.content.parts.items

\* the local month each creation time of the exports falls in, from the calendar
MonthOfStamp(ts, offset) ==
    CASE ts = T_Nov23  -> MonthKey(2023, 11)
      [] ts = T_Jan15  -> MonthKey(2024, 1)
      [] ts = T_JanEnd -> IF offset >= 1800 THEN MonthKey(2024, 2) ELSE MonthKey(2024, 1)
      [] ts = T_Mar10  -> MonthKey(2024, 3)

KeyOfNode(node) == MonthOfStamp(node.message.create_time.n, tz)

\* the token count of one part: what count_tokens returns, 0 for a part it fails on
TokensOfPart(u) ==
    CASE u.kind = "str" /\ (\A i \in 1..Len(u.toks) : u.toks[i] # "<|endoftext|>")
            -> Len(u.toks)
      [] u.kind = "dict" /\ {"width", "height"} \subseteq u.keys
            -> 85 + 170 * ((u.width * u.height) \div 262144)
      [] OTHER -> 0

RECURSIVE TokensOfParts(_, _)
TokensOfParts(parts, n) ==
    IF n = 0 THEN 0 ELSE TokensOfParts(parts, n - 1) + TokensOfPart(parts[n])

RECURSIVE ExpectedTotal(_, _, _)
\* the sum, over the first n nodes, of the tokens of the messages of this role and month
ExpectedTotal(role, key, n) ==
    IF n = 0 THEN 0
    ELSE ExpectedTotal(role, key, n - 1)
         + (IF WellFormed(data[n]) /\ RoleOf(data[n]) = role /\ KeyOfNode(data[n]) = key
            THEN TokensOfParts(PartsOf(data[n]), Len(PartsOf(data[n])))
            ELSE 0)

AllKeys == {KeyOfOrdinal(n) : n \in Ordinals}

(***************************************************************************)
(* C5. After extract_token_usage, for every month key m the input          *)
(* mapping's value at m is the sum of the token counts of all parts of all *)
(* messages with role "user", a usable creation time in m and a truthy     *)
(* first part, and the output mapping's value at m is that sum over the    *)
(* messages with role "assistant"; other roles change neither mapping.     *)
(***************************************************************************)
C5_MonthlySums ==
    ExtractionReturned =>
        \A m \in AllKeys :
            /\ DictGet0(monthly_input_tokens, m) = ExpectedTotal("user", m, Len(data))
            /\ DictGet0(monthly_output_tokens, m) = ExpectedTotal("assistant", m, Len(data))

(***************************************************************************)
(* C1. Extraction never aborts on a missing or malformed node: a node      *)
(* whose message is absent or null, whose author, create_time or content   *)
(* is absent, or whose parts list is empty (with or without a create_time) *)
(* is skipped without an error and adds nothing to either mapping.         *)
(***************************************************************************)
ClaimedSkipped(node) ==
    \/ node.message.tag \in {"absent", "null"}
    \/ node.message.tag = "obj" /\
         \/ node.message.author.tag = "absent"
         \/ node.message.create_time.tag = "absent"
         \/ node.message.content.tag = "absent"
         \/ /\ node.message.content.tag = "obj"
            /\ node.message.content.parts.tag = "list"
            /\ node.message.content.parts.items = <<>>

C1_MalformedNodesSkipped ==
    (mode = "main" /\ \A i \in 1..idx : ClaimedSkipped(data[i])) =>
        /\ pc # "extract_raised"
        /\ monthly_input_tokens = EmptyDict
        /\ monthly_output_tokens = EmptyDict

(***************************************************************************)
(* C10. A loaded export never makes the run stop with an unhandled         *)
(* failure, except when extraction yields no month key in either mapping:  *)
(* then the run fails in the reporter, taking the minimum of an empty set, *)
(* before any row is printed or any chart drawn; in every other case the   *)
(* reporter and the renderer are reached and complete.                     *)
(***************************************************************************)
C10_OnlyEmptyDataFails ==
    mode = "main" =>
        /\ pc \in {"extract_raised", "print_raised", "plot_raised"} =>
              /\ pc = "print_raised"
              /\ AllDates(monthly_input_tokens, monthly_output_tokens) = {}
              /\ table = NoSeries /\ chart = NoSeries
        /\ (pc \in {"plot", "done"}) =>
              AllDates(monthly_input_tokens, monthly_output_tokens) # {}

(***************************************************************************)
(* C9. After extract_token_usage the two mappings are sparse: every key    *)
(* present in the input or the output mapping maps to a count of at least  *)
(* 1, never to 0, and every value is a non-negative integer.               *)
(***************************************************************************)
C9_KeysHaveTokens ==
    ExtractionReturned =>
        /\ \A k \in DOMAIN monthly_input_tokens : monthly_input_tokens[k] >= 1
        /\ \A k \in DOMAIN monthly_output_tokens : monthly_output_tokens[k] >= 1

(***************************************************************************)
(* C9, amended. After extract_token_usage a key is present in the input    *)
(* (output) mapping only if the export holds a "user" ("assistant")        *)
(* message dated in that month, with a truthy first part that count_tokens *)
(* returned a count for; its value is a non-negative integer, which is 0   *)
(* when every counted part of the month tokenized to 0.                    *)
(***************************************************************************)
PartCounted(u) ==
    \/ u.kind = "dict"
    \/ u.kind = "str" /\ \A i \in 1..Len(u.toks) : u.toks[i] # "<|endoftext|>"

KeyJustified(role, k) ==
    \E i \in 1..Len(data) :
        /\ WellFormed(data[i])
        /\ RoleOf(data[i]) = role
        /\ KeyOfNode(data[i]) = k
        /\ PartCounted(PartsOf(data[i])[1])

C9_KeysAreCountedMonths ==
    ExtractionReturned =>
        /\ \A k \in DOMAIN monthly_input_tokens :
              monthly_input_tokens[k] >= 0 /\ KeyJustified("user", k)
        /\ \A k \in DOMAIN monthly_output_tokens :
              monthly_output_tokens[k] >= 0 /\ KeyJustified("assistant", k)

C9_Witness ==
    /\ ExtractionReturned
    /\ MonthKey(2023, 11) \in DOMAIN monthly_output_tokens
    /\ monthly_output_tokens[MonthKey(2023, 11)] = 0
    /\ MonthKey(2024, 1) \in DOMAIN monthly_input_tokens
    /\ monthly_input_tokens[MonthKey(2024, 1)] = 2

(***************************************************************************)
(* C4. In print_token_usage and plot_token_usage, for mappings that are    *)
(* not both empty and any current date, the generated month sequence holds *)
(* every month key of either mapping, ascends month by month without a     *)
(* gap, starts at the earliest key of the two mappings and ends at the     *)
(* later of the current month and the latest key, also when the latest     *)
(* data month lies after the current month.                                *)
(***************************************************************************)
DataKeys == DOMAIN monthly_input_tokens \cup DOMAIN monthly_output_tokens
FirstDataMonth == MinOrd(OrdinalsOf(DataKeys))
LastDataMonth == MaxOrd(OrdinalsOf(DataKeys))
LastMonth(today) ==
    IF Ordinal(today.y, today.m) > LastDataMonth
    THEN Ordinal(today.y, today.m) ELSE LastDataMonth

SequenceSpansData(all_months, today) ==
    /\ all_months = KeyRange(FirstDataMonth, LastMonth(today))
    /\ \A k \in DataKeys : \E i \in 1..Len(all_months) : all_months[i] = k
    /\ all_months[1] = KeyOfOrdinal(FirstDataMonth)
    /\ all_months[Len(all_months)] = KeyOfOrdinal(LastMonth(today))

C4_MonthSequenceSpansData ==
    /\ (mode = "main" /\ pc = "plot") => SequenceSpansData(table.all_months, now)
    /\ (mode = "main" /\ pc = "done") => SequenceSpansData(chart.all_months, now)

C4_Witness ==
    /\ mode = "main" /\ pc = "done"
    /\ now.y = 2023 /\ now.m = 12
    /\ MonthKey(2023, 11) \in DataKeys /\ MonthKey(2024, 3) \in DataKeys
    /\ Len(chart.all_months) = 5
    /\ chart.all_months = table.all_months

(***************************************************************************)
(* C6. The reporter produces one row per month of the generated range      *)
(* (earliest data month to the later of now and the latest data month);    *)
(* a row's input and output counts are the mappings' values for its month, *)
(* 0 when the month is missing, its cost is calculate_cost of the two, and *)
(* the cumulative input, output and cost of row k are the sums of rows     *)
(* 0..k, so each cumulative sequence never decreases.                      *)
(***************************************************************************)
RunningSum(cum, xs) ==
    /\ Len(cum) = Len(xs)
    /\ \A k \in 1..Len(xs) :
          /\ cum[k] = (IF k = 1 THEN 0 ELSE cum[k - 1]) + xs[k]
          /\ k > 1 => cum[k] >= cum[k - 1]

RowsAligned(t, today) ==
    /\ t.all_months = KeyRange(FirstDataMonth, LastMonth(today))
    /\ Len(t.input_data) = Len(t.all_months)
    /\ Len(t.output_data) = Len(t.all_months)
    /\ Len(t.monthly_costs) = Len(t.all_months)
    /\ \A i \in 1..Len(t.all_months) :
          /\ t.input_data[i] =
               (IF t.all_months[i] \in DOMAIN monthly_input_tokens
                THEN monthly_input_tokens[t.all_months[i]] ELSE 0)
          /\ t.output_data[i] =
               (IF t.all_months[i] \in DOMAIN monthly_output_tokens
                THEN monthly_output_tokens[t.all_months[i]] ELSE 0)
          /\ t.monthly_costs[i] = calculate_cost(t.input_data[i], t.output_data[i])
    /\ RunningSum(t.cumulative_input, t.input_data)
    /\ RunningSum(t.cumulative_output, t.output_data)
    /\ RunningSum(t.cumulative_costs, t.monthly_costs)

\* one 2-token user message in 2024-01 and one 3-token assistant message in 2024-03
ScenarioUser == Msg("user", T_Jan15, <<S2>>)
ScenarioAssistant == Msg("assistant", T_Mar10, <<S3>>)
IsScenario ==
    data \in { <<ScenarioUser, ScenarioAssistant>>, <<ScenarioAssistant, ScenarioUser>> }

ScenarioKeys == << MonthKey(2024, 1), MonthKey(2024, 2), MonthKey(2024, 3) >>

(***************************************************************************)
(* C6 as claimed: the scenario yields the three rows 2024-01(2,0),         *)
(* 2024-02(0,0), 2024-03(0,3) and cumulative input [2,2,2], cumulative     *)
(* output [0,0,3].                                                         *)
(***************************************************************************)
C6_ScenarioHasThreeRows ==
    (mode = "main" /\ pc = "plot") =>
        /\ RowsAligned(table, now)
        /\ IsScenario =>
              /\ table.all_months = ScenarioKeys
              /\ table.input_data = <<2, 0, 0>>
              /\ table.output_data = <<0, 0, 3>>
              /\ table.cumulative_input = <<2, 2, 2>>
              /\ table.cumulative_output = <<0, 0, 3>>

(***************************************************************************)
(* C6, amended. The rows are as C6 says; in the scenario they begin with   *)
(* 2024-01(2,0), 2024-02(0,0), 2024-03(0,3), cumulative input 2,2,2 and    *)
(* cumulative output 0,0,3, and these are all the rows only when the       *)
(* current month is not after 2024-03: every later month up to the current *)
(* one adds a row (0,0) with cumulative input 2 and cumulative output 3.   *)
(***************************************************************************)
C6_RowsAndScenarioPrefix ==
    (mode = "main" /\ pc = "plot") =>
        /\ RowsAligned(table, now)
        /\ IsScenario =>
              /\ Len(table.all_months) >= 3
              /\ SubSeq(table.all_months, 1, 3) = ScenarioKeys
              /\ SubSeq(table.input_data, 1, 3) = <<2, 0, 0>>
              /\ SubSeq(table.output_data, 1, 3) = <<0, 0, 3>>
              /\ SubSeq(table.cumulative_input, 1, 3) = <<2, 2, 2>>
              /\ SubSeq(table.cumulative_output, 1, 3) = <<0, 0, 3>>
              /\ \A i \in 4..Len(table.all_months) :
                    /\ table.input_data[i] = 0 /\ table.output_data[i] = 0
                    /\ table.cumulative_input[i] = 2
                    /\ table.cumulative_output[i] = 3
              /\ Len(table.all_months) =
                    (IF Ordinal(now.y, now.m) > Ordinal(2024, 3)
                     THEN Ordinal(now.y, now.m) - Ordinal(2024, 1) + 1 ELSE 3)

C6_Witness ==
    /\ mode = "main" /\ pc = "plot" /\ IsScenario
    /\ now.y = 2025 /\ now.m = 2
    /\ Len(table.all_months) = 14
    /\ table.cumulative_output[14] = 3

====
